---------------------------- MODULE Spec2Model ----------------------------
(***************************************************************************)
(* State-machine model of the VMC planner backend (src-tauri): the user,   *)
(* session, machine and schedule tables, the session manager               *)
(* (utils/auth.rs), the role gate (utils/permissions.rs) and the auth,     *)
(* user and schedule command handlers.                                     *)
(*                                                                         *)
(* Every command handler takes the single database mutex on entry.  The    *)
(* auth and user handlers keep it until they return, so one handler is     *)
(* one atomic action; the schedule handlers that drop it before they       *)
(* read their row back are two actions, and the weekly view is one         *)
(* action for each turn of its loop.  Spec is the behaviour of the auth    *)
(* and user commands, SpecSched that of the schedule commands,             *)
(* SpecSchedFair that of the requests that take the lock twice or hold it  *)
(* over several steps, under fair scheduling, and SpecReact that of the    *)
(* session commands once two users have logged in.                         *)
(*                                                                         *)
(* SQLite statements are taken to succeed unless a declared constraint     *)
(* (UNIQUE, CHECK, FOREIGN KEY) rejects them, except for the INSERT of     *)
(* copy_week_schedule, whose error the handler discards: there the         *)
(* storage may refuse a row.                                               *)
(***************************************************************************)
EXTENDS Integers, Sequences, FiniteSets, TLC

VARIABLES
    users,            \* users table:    id -> row
    sessions,         \* sessions table: id -> row
    now,              \* wall clock (Utc::now()), in ticks of HoursPerTick hours
    next_user_id,     \* AUTOINCREMENT counter of users.id
    next_session_id,  \* AUTOINCREMENT counter of sessions.id
    last,             \* the last command: its name, arguments and result
    loggedOut,        \* history: issued tokens that logout was called with
    pwChanged,        \* history: tokens whose owner changed password after issue
    expiredSeen,      \* history: tokens for which validation answered "Session expired"
    notFoundSeen,     \* history: tokens for which validation answered UserNotFound
    steps,            \* number of commands and clock ticks so far
    machines,         \* machines table:  id -> row
    schedules,        \* schedules table: id -> row
    next_schedule_id, \* AUTOINCREMENT counter of schedules.id
    db_lock,          \* Database.conn: Free, or the request that holds the guard
    pending,          \* the request between its write and its get_schedule, if any
    week,             \* the get_weekly_schedule call in progress, if any
    reply             \* what the last schedule command did and returned

vars == <<users, sessions, now, next_user_id, next_session_id, last,
          loggedOut, pwChanged, expiredSeen, notFoundSeen, steps,
          machines, schedules, next_schedule_id, db_lock, pending, week, reply>>

(* The state of the schedule commands other than the schedules table *)
schedVars == <<machines, next_schedule_id, db_lock, pending, week, reply>>

---------------------------------------------------------------------------
(* Bounds of the model *)

MaxSteps == 4         \* length of the explored command sequences
MaxSessions == 3      \* at most this many logins succeed
MaxUsers == 4         \* user ids 1..MaxUsers (three seeded, the rest created)
MaxTime == 3          \* the clock stops after this many ticks
HoursPerTick == 12    \* granularity of the clock
MaxSchedSteps == 3    \* length of the explored schedule command sequences
MaxSchedules == 6     \* schedule ids 1..MaxSchedules (three seeded, the rest created)

(* Program constants *)

SessionHours == 24    \* Duration::hours(24)
HoursPerDay == 24     \* chrono calendar: "%d" rolls over after 24 "%H"

WeekLen == 7          \* for day_offset in 0..7
WeekSpan == 6         \* Duration::days(6): from the first day of a week to its last
DaysPerWeek == 7      \* chrono calendar: "%A" repeats every 7 days

SessionTicks == SessionHours \div HoursPerTick
TicksPerDay == HoursPerDay \div HoursPerTick

---------------------------------------------------------------------------
(* Result values: the Ok variant and the error strings of the source *)

Ok == "Ok"
InvalidSession == "Invalid or expired session"
SessionExpired == "Session expired"
UserNotFound == "User not found or inactive"
InvalidCredentials == "Invalid username or password"
WrongPassword == "Current password is incorrect"
PermissionDenied == "Permission denied"
InvalidRole == "Invalid role"
UsernameExists == "Username already exists"
NoFields == "No fields to update"
SelfDelete == "Cannot delete your own account"
NoRows == "Query returned no rows"
ParseError == "trailing input"
ScheduleNotFound == "Schedule not found"
InvalidStatus == "Invalid status"
CreateFailed == "Failed to create schedule: FOREIGN KEY constraint failed"

(* Option<T>: None is the empty set, Some(x) the singleton *)
None == {}
Some(x) == {x}
Unwrap(o) == CHOOSE x \in o : TRUE

---------------------------------------------------------------------------
(* Input domains *)

Roles == {"Admin", "Operator", "Viewer"}
RoleInputs == Roles \cup {"Guest"}
Usernames == {"admin", "operator1", "viewer1", "newuser"}
Passwords == {"admin123", "operator123", "viewer123", "changed123"}
NewPasswords == {"operator123", "changed123"}
UserIds == 1..MaxUsers
Tokens == 1..MaxSessions      \* the tokens logins hand out, in order of issue
AnyTokens == Tokens \cup {0}   \* 0 is a token that is never issued

---------------------------------------------------------------------------
(* utils/auth.rs: password hashing *)

hash_password(password) == [alg |-> "bcrypt", pw |-> password]

verify_password(password, hash) == hash = hash_password(password)

(* Timestamps: Utc::now().format("%Y-%m-%d %H:%M:%S"), here day and hour,  *)
(* most significant field first; Rust compares the strings field by field. *)
FormatTime(t) == <<t \div TicksPerDay, (t % TicksPerDay) * HoursPerTick>>

StrLess(a, b) == a[1] < b[1] \/ (a[1] = b[1] /\ a[2] < b[2])

(* Uuid::new_v4(): a token that was never produced before *)
generate_token == next_session_id

create_session(user_id) ==
    [user_id |-> user_id,
     token |-> generate_token,
     expires_at |-> FormatTime(now + SessionTicks),
     is_valid |-> TRUE]


---------------------------------------------------------------------------
(* utils/auth.rs: the session manager.  An operator that models a function *)
(* with side effects returns a record: its result and the tables after it. *)

(* Variants of the definitions below, each changed the way a slip in the  *)
(* source would change it; a property that rests on a definition fails     *)
(* when the variant takes its place.                                       *)

(* SELECT * FROM sessions WHERE token = ?1 AND is_valid = 1 *)
ValidSessionIds(token) ==
    {i \in DOMAIN sessions : sessions[i].token = token /\ sessions[i].is_valid}

(* SELECT * FROM users WHERE id = ?1 AND is_active = 1 *)
ActiveUserIds(user_id) ==
    {u \in DOMAIN users : u = user_id /\ users[u].is_active}

(* variant: the expired session is reported but never written back *)
validate_session_no_write(token) ==
    IF ValidSessionIds(token) = {}
    THEN [res |-> InvalidSession, user_id |-> 0, sessions |-> sessions]
    ELSE LET id == CHOOSE i \in ValidSessionIds(token) : TRUE
             session == sessions[id]
         IN  IF StrLess(session.expires_at, FormatTime(now))
             THEN [res |-> SessionExpired, user_id |-> 0, sessions |-> sessions]
             ELSE IF ActiveUserIds(session.user_id) = {}
             THEN [res |-> UserNotFound, user_id |-> 0, sessions |-> sessions]
             ELSE [res |-> Ok, user_id |-> session.user_id, sessions |-> sessions]

(* variant: a successful validation renews the expiry (sliding session) *)
validate_session_sliding(token) ==
    IF ValidSessionIds(token) = {}
    THEN [res |-> InvalidSession, user_id |-> 0, sessions |-> sessions]
    ELSE LET id == CHOOSE i \in ValidSessionIds(token) : TRUE
             session == sessions[id]
         IN  IF StrLess(session.expires_at, FormatTime(now))
             THEN [res |-> SessionExpired, user_id |-> 0,
                   sessions |-> [sessions EXCEPT ![id].is_valid = FALSE]]
             ELSE IF ActiveUserIds(session.user_id) = {}
             THEN [res |-> UserNotFound, user_id |-> 0, sessions |-> sessions]
             ELSE [res |-> Ok, user_id |-> session.user_id,
                   sessions |-> [sessions EXCEPT
                                    ![id].expires_at = FormatTime(now + SessionTicks)]]

(* variant: a session whose user is not active is invalidated when seen *)
validate_session_revoke_inactive(token) ==
    IF ValidSessionIds(token) = {}
    THEN [res |-> InvalidSession, user_id |-> 0, sessions |-> sessions]
    ELSE LET id == CHOOSE i \in ValidSessionIds(token) : TRUE
             session == sessions[id]
         IN  IF StrLess(session.expires_at, FormatTime(now))
             THEN [res |-> SessionExpired, user_id |-> 0,
                   sessions |-> [sessions EXCEPT ![id].is_valid = FALSE]]
             ELSE IF ActiveUserIds(session.user_id) = {}
             THEN [res |-> UserNotFound, user_id |-> 0,
                   sessions |-> [sessions EXCEPT ![id].is_valid = FALSE]]
             ELSE [res |-> Ok, user_id |-> session.user_id, sessions |-> sessions]

validate_session(token) ==
    IF ValidSessionIds(token) = {}
    THEN [res |-> InvalidSession, user_id |-> 0, sessions |-> sessions]
    ELSE LET id == CHOOSE i \in ValidSessionIds(token) : TRUE
             session == sessions[id]
         IN  IF StrLess(session.expires_at, FormatTime(now))
             THEN [res |-> SessionExpired, user_id |-> 0,
                   sessions |-> [sessions EXCEPT ![id].is_valid = FALSE]]
             ELSE IF ActiveUserIds(session.user_id) = {}
             THEN [res |-> UserNotFound, user_id |-> 0, sessions |-> sessions]
             ELSE [res |-> Ok, user_id |-> session.user_id, sessions |-> sessions]

(* variant: UPDATE ... WHERE token = ?1 AND is_valid = 0 touches no live row *)
invalidate_session_no_row(token) == sessions

(* variant: DELETE FROM sessions WHERE token = ?1 *)
invalidate_session_delete(token) ==
    [i \in {j \in DOMAIN sessions : sessions[j].token # token} |-> sessions[i]]

(* variant: UPDATE sessions SET is_valid = 0 for every session of the      *)
(* token's user                                                            *)
invalidate_session_of_user(token) ==
    [i \in DOMAIN sessions |->
        IF \E j \in DOMAIN sessions :
               sessions[j].token = token /\ sessions[j].user_id = sessions[i].user_id
        THEN [sessions[i] EXCEPT !.is_valid = FALSE]
        ELSE sessions[i]]

(* UPDATE sessions SET is_valid = 0 WHERE token = ?1 *)
invalidate_session(token) ==
    [i \in DOMAIN sessions |->
        IF sessions[i].token = token
        THEN [sessions[i] EXCEPT !.is_valid = FALSE]
        ELSE sessions[i]]

(* variant: UPDATE sessions SET is_valid = 0 WHERE id = ?1 *)
invalidate_all_user_sessions_by_id(user_id) ==
    [i \in DOMAIN sessions |->
        IF i = user_id
        THEN [sessions[i] EXCEPT !.is_valid = FALSE]
        ELSE sessions[i]]

(* UPDATE sessions SET is_valid = 0 WHERE user_id = ?1 *)
invalidate_all_user_sessions(user_id) ==
    [i \in DOMAIN sessions |->
        IF sessions[i].user_id = user_id
        THEN [sessions[i] EXCEPT !.is_valid = FALSE]
        ELSE sessions[i]]

(* variant: SELECT * FROM users WHERE username = ?1 *)
LoginCandidates_any(username) ==
    {u \in DOMAIN users : users[u].username = username}

(* SELECT * FROM users WHERE username = ?1 AND is_active = 1 *)
LoginCandidates(username) ==
    {u \in DOMAIN users : users[u].username = username /\ users[u].is_active}

(* variant: an unknown or deactivated username is reported as such *)
login_user_distinct_errors(username, password) ==
    IF LoginCandidates(username) = {}
    THEN [res |-> UserNotFound, user_id |-> 0, token |-> 0, sessions |-> sessions]
    ELSE LET id == CHOOSE u \in LoginCandidates(username) : TRUE
         IN  IF ~verify_password(password, users[id].password_hash)
             THEN [res |-> InvalidCredentials, user_id |-> 0, token |-> 0,
                   sessions |-> sessions]
             ELSE [res |-> Ok, user_id |-> id, token |-> generate_token,
                   sessions |-> [i \in DOMAIN sessions \cup {next_session_id} |->
                                    IF i = next_session_id
                                    THEN create_session(id)
                                    ELSE sessions[i]]]

login_user(username, password) ==
    IF LoginCandidates(username) = {}
    THEN [res |-> InvalidCredentials, user_id |-> 0, token |-> 0, sessions |-> sessions]
    ELSE LET id == CHOOSE u \in LoginCandidates(username) : TRUE
         IN  IF ~verify_password(password, users[id].password_hash)
             THEN [res |-> InvalidCredentials, user_id |-> 0, token |-> 0,
                   sessions |-> sessions]
             ELSE [res |-> Ok, user_id |-> id, token |-> generate_token,
                   sessions |-> [i \in DOMAIN sessions \cup {next_session_id} |->
                                    IF i = next_session_id
                                    THEN create_session(id)
                                    ELSE sessions[i]]]

(* variant: the old password is hashed and stored again *)
change_password_old_hash(user_id, old_password, new_password) ==
    IF user_id \notin DOMAIN users
    THEN [res |-> "User not found", users |-> users, sessions |-> sessions]
    ELSE IF ~verify_password(old_password, users[user_id].password_hash)
    THEN [res |-> WrongPassword, users |-> users, sessions |-> sessions]
    ELSE [res |-> Ok,
          users |-> [users EXCEPT ![user_id].password_hash = hash_password(old_password)],
          sessions |-> invalidate_all_user_sessions(user_id)]

change_password(user_id, old_password, new_password) ==
    IF user_id \notin DOMAIN users
    THEN [res |-> "User not found", users |-> users, sessions |-> sessions]
    ELSE IF ~verify_password(old_password, users[user_id].password_hash)
    THEN [res |-> WrongPassword, users |-> users, sessions |-> sessions]
    ELSE [res |-> Ok,
          users |-> [users EXCEPT ![user_id].password_hash = hash_password(new_password)],
          sessions |-> invalidate_all_user_sessions(user_id)]

---------------------------------------------------------------------------
(* utils/permissions.rs: the role gate *)

check_role(role, required_roles) ==
    IF role \in required_roles THEN Ok ELSE PermissionDenied

require_admin(role) == check_role(role, {"Admin"})

(* variant: the edit tier forgets the Operator role *)
require_edit_permission_admin_only(role) == check_role(role, {"Admin"})

require_edit_permission(role) == check_role(role, {"Admin", "Operator"})

require_view_permission(role) == check_role(role, {"Admin", "Operator", "Viewer"})

---------------------------------------------------------------------------
(* Dates.  A TEXT date is modelled as <<d, junk>>: the "%Y-%m-%d" text of   *)
(* day d, where day 0 is a Monday, followed by one stray character when    *)
(* junk = 1.  The zero-padded text has a fixed width, so the order of the  *)
(* strings is the order of the days, and a longer string comes after its   *)
(* prefix.                                                                 *)

(* NaiveDate::format("%Y-%m-%d") *)
format_date(d) == <<d, 0>>

parse_from_str_lenient(s) == Some(s[1])

(* NaiveDate::parse_from_str(s, "%Y-%m-%d"): None stands for the Err *)
parse_from_str(s) == IF s[2] = 0 THEN Some(s[1]) ELSE None

(* SQLite comparison of two TEXT values: date >= ?1, date <= ?2 *)
TextLeq(a, b) == a[1] < b[1] \/ (a[1] = b[1] /\ a[2] <= b[2])

DayNames ==
    <<"Monday", "Tuesday", "Wednesday", "Thursday", "Friday", "Saturday", "Sunday">>

(* NaiveDate::format("%A") *)
day_name(d) == DayNames[(d % DaysPerWeek) + 1]

---------------------------------------------------------------------------
(* db/schema.rs and db/seed.rs: machines and schedules.  Two of the seven  *)
(* seeded machines and three of the current week's entries are kept; the   *)
(* hours are counted in half hours (24 is 12.0 h, 23 is 11.5 h), and a     *)
(* "HH:00" time of day is its hour.                                        *)

ScheduleStatuses == {"scheduled", "in-progress", "completed", "cancelled"}

SeedMachines == <<[name |-> "TAKUMI H12E"], [name |-> "MAKINO PS65"]>>

(* The machine names in the order of ORDER BY name ASC *)
NamesAscending == <<"MAKINO PS65", "TAKUMI H12E">>

NameRank(name) == CHOOSE k \in 1..Len(NamesAscending) : NamesAscending[k] = name

SeedSchedules ==
    <<[machine_id |-> 1, project_id |-> Some(1), date |-> format_date(0),
       start_time |-> 8, end_time |-> 20, operator_id |-> Some(2),
       load_name |-> "HW BOT INS", planned_hours |-> 24, actual_hours |-> Some(23),
       notes |-> "Aerospace batch", status |-> "completed", created_by |-> None],
      [machine_id |-> 1, project_id |-> Some(1), date |-> format_date(3),
       start_time |-> 8, end_time |-> 20, operator_id |-> Some(2),
       load_name |-> "KWPA BUNK", planned_hours |-> 24, actual_hours |-> None,
       notes |-> "Aerospace batch", status |-> "scheduled", created_by |-> None],
      [machine_id |-> 2, project_id |-> Some(2), date |-> format_date(0),
       start_time |-> 8, end_time |-> 20, operator_id |-> Some(2),
       load_name |-> "FMD 33G ELE", planned_hours |-> 24, actual_hours |-> Some(24),
       notes |-> "EV transmission", status |-> "completed", created_by |-> None]>>

(* Database { conn: Mutex<Connection> }: the value of db_lock when nobody  *)
(* holds the guard, and the test every db.conn.lock() waits for            *)
Free == "free"

LockFree_ignored == TRUE

LockFree == db_lock = Free

(* The reply of a schedule command: whether the invocation wrote to the    *)
(* schedules table, and the value it returned                              *)
NoReply == [wrote |-> FALSE, value |-> <<>>]

---------------------------------------------------------------------------
(* db/seed.rs, seed_users: the accounts of a fresh database.  operator2    *)
(* and operator3 are seeded exactly like operator1 and are left out.       *)

SeedUsers ==
    <<[username |-> "admin", password |-> "admin123", role |-> "Admin"],
      [username |-> "operator1", password |-> "operator123", role |-> "Operator"],
      [username |-> "viewer1", password |-> "viewer123", role |-> "Viewer"]>>

(* INSERT INTO users (username, password_hash, email, full_name, role);    *)
(* is_active INTEGER DEFAULT 1 *)
NewUserRow(username, password, role) ==
    [username |-> username,
     password_hash |-> hash_password(password),
     role |-> role,
     is_active |-> TRUE]

(* The record of the last command *)
NoLast ==
    [op |-> "init", res |-> Ok, token |-> 0, user |-> 0, target |-> 0,
     username |-> "", old |-> "", new |-> ""]

(* Tokens handed out so far *)
IssuedTokens == 1..(next_session_id - 1)

ExpiredSeenAfter(token, v) ==
    IF v.res = SessionExpired THEN expiredSeen \cup {token} ELSE expiredSeen

NotFoundSeenAfter(token, v) ==
    IF v.res = UserNotFound THEN notFoundSeen \cup {token} ELSE notFoundSeen

Init ==
    /\ users = [i \in 1..Len(SeedUsers) |->
                   NewUserRow(SeedUsers[i].username, SeedUsers[i].password,
                              SeedUsers[i].role)]
    /\ sessions = [i \in {} |-> 0]
    /\ now = 0
    /\ next_user_id = Len(SeedUsers) + 1
    /\ next_session_id = 1
    /\ last = NoLast
    /\ loggedOut = {}
    /\ pwChanged = {}
    /\ expiredSeen = {}
    /\ notFoundSeen = {}
    /\ steps = 0
    /\ machines = [i \in 1..Len(SeedMachines) |-> SeedMachines[i]]
    /\ schedules = [i \in 1..Len(SeedSchedules) |-> SeedSchedules[i]]
    /\ next_schedule_id = Len(SeedSchedules) + 1
    /\ db_lock = Free
    /\ pending = None
    /\ week = None
    /\ reply = NoReply

(* One more command or clock tick, within the explored length *)
Step ==
    /\ steps < MaxSteps
    /\ steps' = steps + 1

---------------------------------------------------------------------------
(* commands/auth.rs *)

Login(username, password) ==
    LET r == login_user(username, password)
    IN  /\ Step
        /\ LockFree
        /\ UNCHANGED <<schedVars, schedules>>
        /\ r.res = Ok => next_session_id <= MaxSessions
        /\ sessions' = r.sessions
        /\ next_session_id' = IF r.res = Ok THEN next_session_id + 1 ELSE next_session_id
        /\ last' = [NoLast EXCEPT !.op = "login", !.res = r.res, !.token = r.token,
                                  !.user = r.user_id, !.username = username,
                                  !.new = password]
        /\ UNCHANGED <<users, now, next_user_id, loggedOut, pwChanged, expiredSeen,
                   notFoundSeen>>

Logout(token) ==
    /\ Step
    /\ LockFree
    /\ UNCHANGED <<schedVars, schedules>>
    /\ sessions' = invalidate_session(token)
    /\ loggedOut' = loggedOut \cup ({token} \cap IssuedTokens)
    /\ last' = [NoLast EXCEPT !.op = "logout", !.token = token]
    /\ UNCHANGED <<users, now, next_user_id, next_session_id, pwChanged, expiredSeen,
                   notFoundSeen>>

GetCurrentUser(token) ==
    LET v == validate_session(token)
    IN  /\ Step
        /\ LockFree
        /\ UNCHANGED <<schedVars, schedules>>
        /\ sessions' = v.sessions
        /\ expiredSeen' = ExpiredSeenAfter(token, v)
        /\ notFoundSeen' = NotFoundSeenAfter(token, v)
        /\ last' = [NoLast EXCEPT !.op = "get_current_user", !.res = v.res,
                                  !.token = token, !.user = v.user_id]
        /\ UNCHANGED <<users, now, next_user_id, next_session_id, loggedOut, pwChanged>>

CmdChangePassword(token, old_password, new_password) ==
    LET v == validate_session(token)
        c == change_password(v.user_id, old_password, new_password)
    IN  /\ Step
        /\ LockFree
        /\ UNCHANGED <<schedVars, schedules>>
        /\ expiredSeen' = ExpiredSeenAfter(token, v)
        /\ notFoundSeen' = NotFoundSeenAfter(token, v)
        /\ IF v.res # Ok
           THEN /\ sessions' = v.sessions
                /\ last' = [NoLast EXCEPT !.op = "change_password", !.res = v.res,
                                          !.token = token]
                /\ UNCHANGED <<users, pwChanged>>
           ELSE /\ users' = c.users
                /\ sessions' = c.sessions
                /\ pwChanged' =
                       IF c.res = Ok
                       THEN pwChanged \cup {sessions[i].token : i \in
                                {j \in DOMAIN sessions : sessions[j].user_id = v.user_id}}
                       ELSE pwChanged
                /\ last' = [NoLast EXCEPT !.op = "change_password", !.res = c.res,
                                          !.token = token, !.user = v.user_id,
                                          !.username = users[v.user_id].username,
                                          !.old = old_password, !.new = new_password]
        /\ UNCHANGED <<now, next_user_id, next_session_id, loggedOut>>

---------------------------------------------------------------------------
(* commands/users.rs *)

(* variant: the user commands ask for the edit tier *)
AdminGate_edit_tier(token) ==
    LET v == validate_session(token)
    IN  IF v.res # Ok THEN v
        ELSE [v EXCEPT !.res = require_edit_permission(users[v.user_id].role)]

(* The prologue of every user command: validate_session, then require_admin *)
AdminGate(token) ==
    LET v == validate_session(token)
    IN  IF v.res # Ok THEN v
        ELSE [v EXCEPT !.res = require_admin(users[v.user_id].role)]

(* The inputs of create_user: CreateUserInput {username, password, role} *)
CreateUserInputs ==
    [username : {"admin", "newuser"}, password : {"viewer123"},
     role : {"Operator", "Guest"}]

(* variant: the role string is stored without the membership test *)
create_user_any_role(input) ==
    IF \E u \in DOMAIN users : users[u].username = input.username
    THEN [res |-> UsernameExists, users |-> users]
    ELSE [res |-> Ok,
          users |-> [u \in DOMAIN users \cup {next_user_id} |->
                        IF u = next_user_id
                        THEN NewUserRow(input.username, input.password, input.role)
                        ELSE users[u]]]

create_user(input) ==
    IF input.role \notin {"Admin", "Operator", "Viewer"}
    THEN [res |-> "Invalid role. Must be Admin, Operator, or Viewer", users |-> users]
    ELSE IF \E u \in DOMAIN users : users[u].username = input.username
    THEN [res |-> UsernameExists, users |-> users]      \* username TEXT NOT NULL UNIQUE
    ELSE [res |-> Ok,
          users |-> [u \in DOMAIN users \cup {next_user_id} |->
                        IF u = next_user_id
                        THEN NewUserRow(input.username, input.password, input.role)
                        ELSE users[u]]]

CreateUser(token, input) ==
    LET g == AdminGate(token)
        c == create_user(input)
    IN  /\ Step
        /\ LockFree
        /\ UNCHANGED <<schedVars, schedules>>
        /\ sessions' = g.sessions
        /\ expiredSeen' = ExpiredSeenAfter(token, g)
        /\ notFoundSeen' = NotFoundSeenAfter(token, g)
        /\ IF g.res # Ok
           THEN /\ last' = [NoLast EXCEPT !.op = "create_user", !.res = g.res,
                                          !.token = token, !.user = g.user_id]
                /\ UNCHANGED <<users, next_user_id>>
           ELSE /\ c.res = Ok => next_user_id <= MaxUsers
                /\ users' = c.users
                /\ next_user_id' = IF c.res = Ok THEN next_user_id + 1 ELSE next_user_id
                /\ last' = [NoLast EXCEPT !.op = "create_user", !.res = c.res,
                                          !.token = token, !.user = g.user_id,
                                          !.target = IF c.res = Ok THEN next_user_id ELSE 0]
        /\ UNCHANGED <<now, next_session_id, loggedOut, pwChanged>>

(* The inputs of update_user: UpdateUserInput {email, full_name, role,     *)
(* is_active}; profile says whether email or full_name is given.           *)
UpdateUserInputs ==
    {[profile |-> FALSE, role |-> None, is_active |-> None],
     [profile |-> TRUE, role |-> None, is_active |-> None],
     [profile |-> FALSE, role |-> Some("Admin"), is_active |-> None],
     [profile |-> FALSE, role |-> Some("Viewer"), is_active |-> None],
     [profile |-> FALSE, role |-> Some("Guest"), is_active |-> Some(FALSE)],
     [profile |-> FALSE, role |-> None, is_active |-> Some(FALSE)],
     [profile |-> FALSE, role |-> None, is_active |-> Some(TRUE)]}

update_user(id, input) ==
    IF input.role # None /\ Unwrap(input.role) \notin {"Admin", "Operator", "Viewer"}
    THEN [res |-> InvalidRole, users |-> users]
    ELSE IF ~input.profile /\ input.role = None /\ input.is_active = None
    THEN [res |-> NoFields, users |-> users]
    ELSE IF id \notin DOMAIN users
    THEN [res |-> NoRows, users |-> users]              \* UPDATE touches no row
    ELSE [res |-> Ok,
          users |-> [users EXCEPT
                        ![id].role = IF input.role # None
                                     THEN Unwrap(input.role) ELSE @,
                        ![id].is_active = IF input.is_active # None
                                          THEN Unwrap(input.is_active) ELSE @]]

UpdateUser(token, id, input) ==
    LET g == AdminGate(token)
        c == update_user(id, input)
    IN  /\ Step
        /\ LockFree
        /\ UNCHANGED <<schedVars, schedules>>
        /\ sessions' = g.sessions
        /\ expiredSeen' = ExpiredSeenAfter(token, g)
        /\ notFoundSeen' = NotFoundSeenAfter(token, g)
        /\ IF g.res # Ok
           THEN /\ last' = [NoLast EXCEPT !.op = "update_user", !.res = g.res,
                                          !.token = token, !.user = g.user_id]
                /\ UNCHANGED users
           ELSE /\ users' = c.users
                /\ last' = [NoLast EXCEPT !.op = "update_user", !.res = c.res,
                                          !.token = token, !.user = g.user_id,
                                          !.target = id]
        /\ UNCHANGED <<now, next_user_id, next_session_id, loggedOut, pwChanged>>

(* variant: the DELETE runs without the comparison with the caller's id *)
delete_user_no_self_check(user_id, id) ==
    [res |-> Ok,
     users |-> [u \in DOMAIN users \ {id} |-> users[u]],
     sessions |-> [i \in {j \in DOMAIN sessions : sessions[j].user_id # id} |->
                      sessions[i]],
     schedules |-> [s \in DOMAIN schedules |->
                       [schedules[s] EXCEPT
                           !.operator_id = @ \ {id},
                           !.created_by = @ \ {id}]]]

(* DELETE FROM users WHERE id = ?1, with PRAGMA foreign_keys = ON:         *)
(* sessions.user_id REFERENCES users(id) ON DELETE CASCADE, and            *)
(* schedules.operator_id, schedules.created_by ... ON DELETE SET NULL      *)
delete_user(user_id, id) ==
    IF user_id = id
    THEN [res |-> SelfDelete, users |-> users, sessions |-> sessions,
          schedules |-> schedules]
    ELSE [res |-> Ok,
          users |-> [u \in DOMAIN users \ {id} |-> users[u]],
          sessions |-> [i \in {j \in DOMAIN sessions : sessions[j].user_id # id} |->
                           sessions[i]],
          schedules |-> [s \in DOMAIN schedules |->
                            [schedules[s] EXCEPT
                                !.operator_id = @ \ {id},
                                !.created_by = @ \ {id}]]]

DeleteUser(token, id) ==
    LET g == AdminGate(token)
        c == delete_user(g.user_id, id)
    IN  /\ Step
        /\ LockFree
        /\ UNCHANGED schedVars
        /\ expiredSeen' = ExpiredSeenAfter(token, g)
        /\ notFoundSeen' = NotFoundSeenAfter(token, g)
        /\ IF g.res # Ok
           THEN /\ sessions' = g.sessions
                /\ last' = [NoLast EXCEPT !.op = "delete_user", !.res = g.res,
                                          !.token = token, !.user = g.user_id]
                /\ UNCHANGED <<users, schedules>>
           ELSE /\ users' = c.users
                /\ sessions' = c.sessions
                /\ schedules' = c.schedules
                /\ last' = [NoLast EXCEPT !.op = "delete_user", !.res = c.res,
                                          !.token = token, !.user = g.user_id,
                                          !.target = id]
        /\ UNCHANGED <<now, next_user_id, next_session_id, loggedOut, pwChanged>>

(* variant: only the password_hash is updated *)
reset_user_password_keeps_sessions(id, new_password) ==
    [res |-> Ok,
     users |-> [u \in DOMAIN users |->
                   IF u = id
                   THEN [users[u] EXCEPT !.password_hash = hash_password(new_password)]
                   ELSE users[u]],
     sessions |-> sessions]

reset_user_password(id, new_password) ==
    [res |-> Ok,
     users |-> [u \in DOMAIN users |->
                   IF u = id
                   THEN [users[u] EXCEPT !.password_hash = hash_password(new_password)]
                   ELSE users[u]],
     sessions |-> [i \in DOMAIN sessions |->
                      IF sessions[i].user_id = id
                      THEN [sessions[i] EXCEPT !.is_valid = FALSE]
                      ELSE sessions[i]]]

ResetUserPassword(token, id, new_password) ==
    LET g == AdminGate(token)
        c == reset_user_password(id, new_password)
    IN  /\ Step
        /\ LockFree
        /\ UNCHANGED <<schedVars, schedules>>
        /\ expiredSeen' = ExpiredSeenAfter(token, g)
        /\ notFoundSeen' = NotFoundSeenAfter(token, g)
        /\ IF g.res # Ok
           THEN /\ sessions' = g.sessions
                /\ last' = [NoLast EXCEPT !.op = "reset_user_password", !.res = g.res,
                                          !.token = token, !.user = g.user_id]
                /\ UNCHANGED users
           ELSE /\ users' = c.users
                /\ sessions' = c.sessions
                /\ last' = [NoLast EXCEPT !.op = "reset_user_password", !.res = c.res,
                                          !.token = token, !.user = g.user_id,
                                          !.target = id, !.new = new_password]
        /\ UNCHANGED <<now, next_user_id, next_session_id, loggedOut, pwChanged>>

---------------------------------------------------------------------------
(* The clock *)

Tick(d) ==
    /\ Step
    /\ UNCHANGED <<schedVars, schedules>>
    /\ now + d <= MaxTime
    /\ now' = now + d
    /\ last' = [NoLast EXCEPT !.op = "tick"]
    /\ UNCHANGED <<users, sessions, next_user_id, next_session_id,
                   loggedOut, pwChanged, expiredSeen,
                   notFoundSeen>>

Next ==
    \/ \E username \in Usernames, password \in Passwords : Login(username, password)
    \/ \E token \in AnyTokens : Logout(token)
    \/ \E token \in AnyTokens : GetCurrentUser(token)
    \/ \E token \in Tokens, old \in Passwords, new \in NewPasswords :
          CmdChangePassword(token, old, new)
    \/ \E token \in Tokens, input \in CreateUserInputs : CreateUser(token, input)
    \/ \E token \in Tokens, id \in UserIds, input \in UpdateUserInputs :
          UpdateUser(token, id, input)
    \/ \E token \in Tokens, id \in UserIds : DeleteUser(token, id)
    \/ \E token \in Tokens, id \in UserIds, new \in NewPasswords :
          ResetUserPassword(token, id, new)
    \/ \E d \in 1..(SessionTicks + 1) : Tick(d)

Spec == Init /\ [][Next]_vars

---------------------------------------------------------------------------
(* commands/schedules.rs.  create_schedule, update_schedule and            *)
(* log_actual_hours write under the mutex, drop the guard and then call    *)
(* get_schedule, which takes the mutex and validates the session again:    *)
(* each of them is two atomic steps, with `pending` in between.  At most   *)
(* one such request is in flight at a time.  get_weekly_schedule keeps     *)
(* the guard over all its queries; it is modelled query by query, with     *)
(* `week` holding its locals.                                              *)

(* What the schedule commands never touch *)
authFrame == <<users, now, next_user_id, next_session_id, loggedOut, pwChanged>>

(* One more schedule command, within the explored length *)
SchedStep ==
    /\ steps < MaxSchedSteps
    /\ steps' = steps + 1

(* The value of last.res while a request is between its write and its      *)
(* read-back                                                               *)
Running == "running"

EditGate_view_tier(token) ==
    LET v == validate_session(token)
    IN  IF v.res # Ok THEN v
        ELSE [v EXCEPT !.res = require_view_permission(users[v.user_id].role)]

(* validate_session, then require_edit_permission *)
EditGate(token) ==
    LET v == validate_session(token)
    IN  IF v.res # Ok THEN v
        ELSE [v EXCEPT !.res = require_edit_permission(users[v.user_id].role)]

(* validate_session, then require_view_permission *)
ViewGate(token) ==
    LET v == validate_session(token)
    IN  IF v.res # Ok THEN v
        ELSE [v EXCEPT !.res = require_view_permission(users[v.user_id].role)]

(* get_schedule: SELECT ... WHERE s.id = ?1 behind the view gate *)
get_schedule(token, id) ==
    LET g == ViewGate(token)
    IN  IF g.res # Ok THEN [res |-> g.res, sessions |-> g.sessions, row |-> None]
        ELSE IF id \in DOMAIN schedules
        THEN [res |-> Ok, sessions |-> g.sessions, row |-> Some(schedules[id])]
        ELSE [res |-> ScheduleNotFound, sessions |-> g.sessions, row |-> None]

(* The inputs of create_schedule: CreateScheduleInput.  The second is a    *)
(* date the handler stores without parsing it, the third an unknown        *)
(* status, the fourth a machine that does not exist.                       *)
CreateScheduleInputs ==
    LET base == [machine_id |-> 1, project_id |-> None, date |-> format_date(0),
                 start_time |-> 6, end_time |-> 14,
                 operator_id |-> Some(2), load_name |-> "PUMP HOUSING",
                 planned_hours |-> 16, notes |-> "Industrial pump", status |-> None]
    IN  {base,
         [base EXCEPT !.machine_id = 2, !.date = <<3, 1>>,
                      !.status = Some("in-progress")],
         [base EXCEPT !.status = Some("bogus")],
         [base EXCEPT !.machine_id = 9]}

(* The row INSERT INTO schedules (...) VALUES (...) stores: actual_hours   *)
(* is not listed and stays NULL                                            *)
NewScheduleRow(input, status, user_id) ==
    [machine_id |-> input.machine_id, project_id |-> input.project_id,
     date |-> input.date, start_time |-> input.start_time,
     end_time |-> input.end_time, operator_id |-> input.operator_id,
     load_name |-> input.load_name, planned_hours |-> input.planned_hours,
     actual_hours |-> None, notes |-> input.notes, status |-> status,
     created_by |-> Some(user_id)]

(* The table after one INSERT *)
Inserted(table, id, row) ==
    [s \in DOMAIN table \cup {id} |-> IF s = id THEN row ELSE table[s]]

(* create_schedule up to drop(conn) *)
create_schedule(user_id, input) ==
    LET status == IF input.status = None THEN "scheduled" ELSE Unwrap(input.status)
    IN  IF status \notin ScheduleStatuses
        THEN [res |-> InvalidStatus, schedules |-> schedules, id |-> 0]
        ELSE IF input.machine_id \notin DOMAIN machines
                  \/ ~(input.operator_id \subseteq DOMAIN users)
        THEN [res |-> CreateFailed, schedules |-> schedules, id |-> 0]
        ELSE [res |-> Ok,
              schedules |-> Inserted(schedules, next_schedule_id,
                                     NewScheduleRow(input, status, user_id)),
              id |-> next_schedule_id]

(* A command that ends before it writes *)
Refused(op, token, g, res) ==
    /\ sessions' = g.sessions
    /\ expiredSeen' = ExpiredSeenAfter(token, g)
    /\ notFoundSeen' = NotFoundSeenAfter(token, g)
    /\ last' = [NoLast EXCEPT !.op = op, !.res = res, !.token = token,
                              !.user = g.user_id]
    /\ reply' = NoReply
    /\ UNCHANGED <<authFrame, machines, schedules, next_schedule_id, db_lock,
                   pending, week>>

(* variant: the command keeps its guard when it goes on to the read-back *)
Written_keeps_guard(op, token, g, id, table) ==
    /\ sessions' = g.sessions
    /\ expiredSeen' = ExpiredSeenAfter(token, g)
    /\ notFoundSeen' = NotFoundSeenAfter(token, g)
    /\ schedules' = table
    /\ pending' = Some([op |-> op, token |-> token, user |-> g.user_id, id |-> id,
                        written |-> IF id \in DOMAIN table THEN Some(table[id])
                                    ELSE None])
    /\ last' = [NoLast EXCEPT !.op = op, !.res = Running, !.token = token,
                              !.user = g.user_id, !.target = id]
    /\ reply' = [wrote |-> id \in DOMAIN table, value |-> <<>>]
    /\ db_lock' = op
    /\ UNCHANGED <<authFrame, machines, week>>

(* A command that has written row `id` and dropped the guard *)
Written(op, token, g, id, table) ==
    /\ sessions' = g.sessions
    /\ expiredSeen' = ExpiredSeenAfter(token, g)
    /\ notFoundSeen' = NotFoundSeenAfter(token, g)
    /\ schedules' = table
    /\ pending' = Some([op |-> op, token |-> token, user |-> g.user_id, id |-> id,
                        written |-> IF id \in DOMAIN table THEN Some(table[id])
                                    ELSE None])
    /\ last' = [NoLast EXCEPT !.op = op, !.res = Running, !.token = token,
                              !.user = g.user_id, !.target = id]
    /\ reply' = [wrote |-> id \in DOMAIN table, value |-> <<>>]
    /\ UNCHANGED <<authFrame, machines, db_lock, week>>

CreateSchedule(token, input) ==
    LET g == EditGate(token)
        c == create_schedule(g.user_id, input)
    IN  /\ SchedStep
        /\ LockFree
        /\ pending = None
        /\ IF g.res # Ok THEN Refused("create_schedule", token, g, g.res)
           ELSE IF c.res # Ok
           THEN Refused("create_schedule", token, g, c.res)
           ELSE /\ next_schedule_id <= MaxSchedules
                /\ next_schedule_id' = next_schedule_id + 1
                /\ Written("create_schedule", token, g, c.id, c.schedules)

(* The second half of create_schedule, update_schedule and                 *)
(* log_actual_hours: get_schedule(token, id, db)                           *)
ReadBack ==
    /\ pending # None
    /\ LockFree
    /\ LET p == Unwrap(pending)
           r == get_schedule(p.token, p.id)
       IN  /\ sessions' = r.sessions
           /\ expiredSeen' = ExpiredSeenAfter(p.token, r)
           /\ notFoundSeen' = NotFoundSeenAfter(p.token, r)
           /\ last' = [NoLast EXCEPT !.op = p.op, !.res = r.res, !.token = p.token,
                                     !.user = p.user, !.target = p.id]
           /\ reply' = [wrote |-> p.written # None,
                        value |-> [written |-> p.written, read |-> r.row]]
    /\ pending' = None
    /\ UNCHANGED <<authFrame, steps, machines, schedules, next_schedule_id,
                   db_lock, week>>

(* The inputs of update_schedule: UpdateScheduleInput, of which date,      *)
(* planned_hours, actual_hours and status are kept (the other six fields   *)
(* are handled like planned_hours).  The first sets nothing, the third     *)
(* carries an unknown status.                                              *)
UpdateScheduleInputs ==
    LET none == [date |-> None, planned_hours |-> None, actual_hours |-> None,
                 status |-> None]
    IN  {none,
         [none EXCEPT !.actual_hours = Some(20)],
         [none EXCEPT !.planned_hours = Some(10), !.status = Some("bogus")],
         [none EXCEPT !.date = Some(format_date(8)), !.status = Some("cancelled")]}

(* update_schedule up to drop(conn): UPDATE schedules SET ... WHERE id = ? *)
update_schedule(id, input) ==
    IF input.status # None /\ Unwrap(input.status) \notin ScheduleStatuses
    THEN [res |-> InvalidStatus, schedules |-> schedules]
    ELSE IF input.date = None /\ input.planned_hours = None
            /\ input.actual_hours = None /\ input.status = None
    THEN [res |-> NoFields, schedules |-> schedules]
    ELSE [res |-> Ok,
          schedules |->
              [s \in DOMAIN schedules |->
                  IF s # id THEN schedules[s]
                  ELSE [schedules[s] EXCEPT
                           !.date = IF input.date = None THEN @
                                    ELSE Unwrap(input.date),
                           !.planned_hours = IF input.planned_hours = None THEN @
                                             ELSE Unwrap(input.planned_hours),
                           !.actual_hours = IF input.actual_hours = None THEN @
                                            ELSE input.actual_hours,
                           !.status = IF input.status = None THEN @
                                      ELSE Unwrap(input.status)]]]

UpdateSchedule(token, id, input) ==
    LET g == EditGate(token)
        c == update_schedule(id, input)
    IN  /\ SchedStep
        /\ LockFree
        /\ pending = None
        /\ IF g.res # Ok THEN Refused("update_schedule", token, g, g.res)
           ELSE IF c.res # Ok
           THEN Refused("update_schedule", token, g, c.res)
           ELSE /\ UNCHANGED next_schedule_id
                /\ Written("update_schedule", token, g, id, c.schedules)

(* log_actual_hours up to drop(conn):                                      *)
(* UPDATE schedules SET actual_hours = ?1 WHERE id = ?2                    *)
log_actual_hours(schedule_id, hours) ==
    [s \in DOMAIN schedules |->
        IF s = schedule_id
        THEN [schedules[s] EXCEPT !.actual_hours = Some(hours)]
        ELSE schedules[s]]

LogActualHours(token, schedule_id, hours) ==
    LET g == EditGate(token)
    IN  /\ SchedStep
        /\ LockFree
        /\ pending = None
        /\ IF g.res # Ok THEN Refused("log_actual_hours", token, g, g.res)
           ELSE /\ UNCHANGED next_schedule_id
                /\ Written("log_actual_hours", token, g, schedule_id,
                           log_actual_hours(schedule_id, hours))

(* delete_schedule: DELETE FROM schedules WHERE id = ?1 *)
delete_schedule(id) == [s \in DOMAIN schedules \ {id} |-> schedules[s]]

DeleteSchedule(token, id) ==
    LET g == EditGate(token)
    IN  /\ SchedStep
        /\ LockFree
        /\ IF g.res # Ok THEN Refused("delete_schedule", token, g, g.res)
           ELSE /\ sessions' = g.sessions
                /\ expiredSeen' = ExpiredSeenAfter(token, g)
                /\ notFoundSeen' = NotFoundSeenAfter(token, g)
                /\ schedules' = delete_schedule(id)
                /\ last' = [NoLast EXCEPT !.op = "delete_schedule", !.token = token,
                                          !.user = g.user_id, !.target = id]
                /\ reply' = [wrote |-> id \in DOMAIN schedules, value |-> <<>>]
                /\ UNCHANGED <<authFrame, machines, next_schedule_id, db_lock,
                               pending, week>>

---------------------------------------------------------------------------
(* get_weekly_schedule *)

RECURSIVE Ascending(_)
(* The second components of the pairs of P as a sequence, in ascending     *)
(* order of the first component and, among equals, of the second (the      *)
(* rowid)                                                                  *)
Ascending(P) ==
    IF P = {} THEN <<>>
    ELSE LET m == CHOOSE p \in P :
                      \A q \in P : p[1] < q[1] \/ (p[1] = q[1] /\ p[2] <= q[2])
         IN  <<m[2]>> \o Ascending(P \ {m})

RECURSIVE SumSeq(_)
(* iter().sum() *)
SumSeq(q) == IF q = <<>> THEN 0 ELSE Head(q) + SumSeq(Tail(q))

MachinesByName_with_entries ==
    LET ids == Ascending({<<NameRank(machines[m].name), m>> : m \in
                   {schedules[s].machine_id : s \in DOMAIN schedules}})
    IN  [k \in 1..Len(ids) |-> [id |-> ids[k], name |-> machines[ids[k]].name]]

(* SELECT id, name FROM machines ORDER BY name ASC *)
MachinesByName ==
    LET ids == Ascending({<<NameRank(machines[m].name), m>> : m \in DOMAIN machines})
    IN  [k \in 1..Len(ids) |-> [id |-> ids[k], name |-> machines[ids[k]].name]]

(* SELECT ... FROM schedules s ... WHERE s.machine_id = ?1 AND s.date = ?2 *)
(* ORDER BY s.start_time ASC: the ScheduleEntry values of one day          *)
DayEntries(machine_id, date_str) ==
    LET hit == {s \in DOMAIN schedules :
                   /\ schedules[s].machine_id = machine_id
                   /\ schedules[s].date = date_str}
        ids == Ascending({<<schedules[s].start_time, s>> : s \in hit})
    IN  [k \in 1..Len(ids) |->
            [id |-> ids[k],
             load_name |-> schedules[ids[k]].load_name,
             start_time |-> schedules[ids[k]].start_time,
             planned_hours |-> schedules[ids[k]].planned_hours,
             actual_hours |-> schedules[ids[k]].actual_hours,
             status |-> schedules[ids[k]].status]]

unwrap_or_full_shift(o) == IF o = None THEN 24 ELSE Unwrap(o)

(* actual_hours.unwrap_or(0.0) *)
unwrap_or_zero(o) == IF o = None THEN 0 ELSE Unwrap(o)

(* One DaySchedule: the body of `for day_offset in 0..7` *)
DaySchedule(machine_id, start_date, day_offset) ==
    LET date == start_date + day_offset
        entries == DayEntries(machine_id, format_date(date))
    IN  [date |-> format_date(date),
         day_name |-> day_name(date),
         entries |-> entries,
         total_planned |-> SumSeq([k \in 1..Len(entries) |->
                                      entries[k].planned_hours]),
         total_actual |-> SumSeq([k \in 1..Len(entries) |->
                                     unwrap_or_zero(entries[k].actual_hours)])]

(* One MachineWeekSchedule: the body of `for (machine_id, machine_name)` *)
MachineWeekSchedule(machine, start_date) ==
    LET days == [k \in 1..WeekLen |-> DaySchedule(machine.id, start_date, k - 1)]
    IN  [machine_id |-> machine.id,
         machine_name |-> machine.name,
         days |-> days,
         weekly_planned |-> SumSeq([k \in 1..WeekLen |-> days[k].total_planned]),
         weekly_actual |-> SumSeq([k \in 1..WeekLen |-> days[k].total_actual])]

(* get_weekly_schedule up to the machines query; it keeps the guard *)
GetWeeklySchedule(token, week_start) ==
    LET g == ViewGate(token)
        start_date == parse_from_str(week_start)
    IN  /\ SchedStep
        /\ LockFree
        /\ IF g.res # Ok THEN Refused("get_weekly_schedule", token, g, g.res)
           ELSE IF start_date = None
           THEN Refused("get_weekly_schedule", token, g, ParseError)
           ELSE /\ sessions' = g.sessions
                /\ expiredSeen' = ExpiredSeenAfter(token, g)
                /\ notFoundSeen' = NotFoundSeenAfter(token, g)
                /\ db_lock' = "get_weekly_schedule"
                /\ week' = Some([token |-> token, user |-> g.user_id,
                                 week_start |-> week_start,
                                 start_date |-> Unwrap(start_date),
                                 week_end |-> format_date(Unwrap(start_date) + WeekSpan),
                                 machines |-> MachinesByName,
                                 result |-> <<>>])
                /\ last' = [NoLast EXCEPT !.op = "get_weekly_schedule",
                                          !.res = Running, !.token = token,
                                          !.user = g.user_id]
                /\ reply' = NoReply
                /\ UNCHANGED <<authFrame, machines, schedules, next_schedule_id,
                               pending>>

(* One turn of the loop over the machines, under the guard *)
WeekMachine ==
    /\ week # None
    /\ LET w == Unwrap(week)
       IN  /\ w.machines # <<>>
           /\ week' = Some([w EXCEPT
                  !.machines = Tail(@),
                  !.result = Append(@, MachineWeekSchedule(Head(w.machines),
                                                           w.start_date))])
    /\ UNCHANGED <<authFrame, sessions, expiredSeen, notFoundSeen, last, steps, machines,
                   schedules, next_schedule_id, db_lock, pending, reply>>

(* Ok(WeeklyScheduleResponse {...}); the guard is dropped on return *)
WeekReturn ==
    /\ week # None
    /\ LET w == Unwrap(week)
       IN  /\ w.machines = <<>>
           /\ last' = [NoLast EXCEPT !.op = "get_weekly_schedule", !.token = w.token,
                                     !.user = w.user]
           /\ reply' = [wrote |-> FALSE,
                        value |-> [week_start |-> w.week_start,
                                   week_end |-> w.week_end,
                                   machines |-> w.result]]
    /\ week' = None
    /\ db_lock' = Free
    /\ UNCHANGED <<authFrame, sessions, expiredSeen, notFoundSeen, steps, machines, schedules,
                   next_schedule_id, pending>>

---------------------------------------------------------------------------
(* copy_week_schedule.  The INSERT of the loop is followed by .ok(): when  *)
(* the storage refuses it the loop goes on.  `failing` is the set of       *)
(* source rows whose INSERT the storage refuses in this call.              *)

(* SELECT * FROM schedules WHERE date >= ?1 AND date <= ?2, in rowid order *)
SourceSchedules(source_start, source_end) ==
    Ascending({<<0, s>> : s \in
        {t \in DOMAIN schedules :
            /\ TextLeq(format_date(source_start), schedules[t].date)
            /\ TextLeq(schedules[t].date, format_date(source_end))}})

(* The row the INSERT of copy_week_schedule stores for one source row *)
CopiedRow(schedule, new_date, user_id) ==
    [machine_id |-> schedule.machine_id, project_id |-> schedule.project_id,
     date |-> format_date(new_date), start_time |-> schedule.start_time,
     end_time |-> schedule.end_time, operator_id |-> schedule.operator_id,
     load_name |-> schedule.load_name, planned_hours |-> schedule.planned_hours,
     actual_hours |-> None, notes |-> schedule.notes, status |-> "scheduled",
     created_by |-> Some(user_id)]

(* variant: the count is incremented only when the INSERT succeeded *)
RECURSIVE CopyLoop_counts_inserted(_, _, _, _, _, _, _)
CopyLoop_counts_inserted(todo, source, day_diff, user_id, failing, acc, copied) ==
    IF todo = <<>>
    THEN [res |-> Ok, schedules |-> acc.schedules, next_id |-> acc.next_id,
          copied |-> copied]
    ELSE LET s == Head(todo)
             old_date == parse_from_str(source[s].date)
         IN  IF old_date = None
             THEN [res |-> ParseError, schedules |-> acc.schedules,
                   next_id |-> acc.next_id, copied |-> copied]
             ELSE CopyLoop_counts_inserted(Tail(todo), source, day_diff, user_id,
                      failing,
                      IF s \in failing THEN acc
                      ELSE [schedules |->
                                Inserted(acc.schedules, acc.next_id,
                                         CopiedRow(source[s],
                                                   Unwrap(old_date) + day_diff,
                                                   user_id)),
                            next_id |-> acc.next_id + 1],
                      IF s \in failing THEN copied ELSE copied + 1)

RECURSIVE CopyLoop(_, _, _, _, _, _, _)
(* for schedule in source_schedules { ... copied += 1; } Ok(copied) *)
CopyLoop(todo, source, day_diff, user_id, failing, acc, copied) ==
    IF todo = <<>>
    THEN [res |-> Ok, schedules |-> acc.schedules, next_id |-> acc.next_id,
          copied |-> copied]
    ELSE LET s == Head(todo)
             old_date == parse_from_str(source[s].date)
         IN  IF old_date = None
             THEN [res |-> ParseError, schedules |-> acc.schedules,
                   next_id |-> acc.next_id, copied |-> copied]
             ELSE CopyLoop(Tail(todo), source, day_diff, user_id, failing,
                      IF s \in failing THEN acc
                      ELSE [schedules |->
                                Inserted(acc.schedules, acc.next_id,
                                         CopiedRow(source[s],
                                                   Unwrap(old_date) + day_diff,
                                                   user_id)),
                            next_id |-> acc.next_id + 1],
                      copied + 1)

(* copy_week_schedule behind its gate *)
copy_week_schedule(user_id, source_week_start, target_week_start, failing) ==
    LET source_start == parse_from_str(source_week_start)
        target_start == parse_from_str(target_week_start)
    IN  IF source_start = None \/ target_start = None
        THEN [res |-> ParseError, schedules |-> schedules,
              next_id |-> next_schedule_id, copied |-> 0]
        ELSE CopyLoop(SourceSchedules(Unwrap(source_start),
                                      Unwrap(source_start) + WeekSpan),
                      schedules,
                      Unwrap(target_start) - Unwrap(source_start),
                      user_id, failing,
                      [schedules |-> schedules, next_id |-> next_schedule_id], 0)

CopyWeekSchedule(token, source_week_start, target_week_start, failing) ==
    LET g == EditGate(token)
        c == copy_week_schedule(g.user_id, source_week_start, target_week_start,
                                failing)
    IN  /\ SchedStep
        /\ LockFree
        /\ IF g.res # Ok THEN Refused("copy_week_schedule", token, g, g.res)
           ELSE /\ c.next_id <= MaxSchedules + 1
                /\ sessions' = g.sessions
                /\ expiredSeen' = ExpiredSeenAfter(token, g)
                /\ notFoundSeen' = NotFoundSeenAfter(token, g)
                /\ schedules' = c.schedules
                /\ next_schedule_id' = c.next_id
                /\ last' = [NoLast EXCEPT !.op = "copy_week_schedule",
                                          !.res = c.res, !.token = token,
                                          !.user = g.user_id]
                /\ reply' = [wrote |-> c.schedules # schedules,
                             value |-> [copied |-> c.copied,
                                        source |-> source_week_start,
                                        target |-> target_week_start,
                                        failing |-> failing]]
                /\ UNCHANGED <<authFrame, machines, db_lock, pending, week>>

---------------------------------------------------------------------------
(* commands/machines.rs, delete_machine: DELETE FROM machines WHERE        *)
(* id = ?1, with schedules.machine_id ... ON DELETE CASCADE                *)

delete_machine(id) ==
    [machines |-> [m \in DOMAIN machines \ {id} |-> machines[m]],
     schedules |-> [s \in {t \in DOMAIN schedules : schedules[t].machine_id # id} |->
                       schedules[s]]]

DeleteMachine(token, id) ==
    LET g == AdminGate(token)
        c == delete_machine(id)
    IN  /\ SchedStep
        /\ LockFree
        /\ IF g.res # Ok THEN Refused("delete_machine", token, g, g.res)
           ELSE /\ sessions' = g.sessions
                /\ expiredSeen' = ExpiredSeenAfter(token, g)
                /\ notFoundSeen' = NotFoundSeenAfter(token, g)
                /\ machines' = c.machines
                /\ schedules' = c.schedules
                /\ last' = [NoLast EXCEPT !.op = "delete_machine", !.token = token,
                                          !.user = g.user_id, !.target = id]
                /\ reply' = [wrote |-> c.schedules # schedules, value |-> <<>>]
                /\ UNCHANGED <<authFrame, next_schedule_id, db_lock, pending, week>>

---------------------------------------------------------------------------
(* The schedule commands with their callers: the seeded accounts log in    *)
(* and out, the clock advances, and the commands of commands/schedules.rs  *)
(* and delete_machine run in any order.                                    *)

SchedLogins ==
    {<<"admin", "admin123">>, <<"operator1", "operator123">>,
     <<"viewer1", "viewer123">>}

(* The rows the commands are aimed at: the first and the last seeded row   *)
(* and the first row that is created                                       *)
ScheduleIds == {1, Len(SeedSchedules), Len(SeedSchedules) + 1}
MachineIds == 1..Len(SeedMachines)
HourInputs == {20}

(* week_start values: a Monday, a Wednesday, the next Monday, and a        *)
(* Monday followed by a stray character                                    *)
WeekStarts == {format_date(0), format_date(2), format_date(7), <<0, 1>>}

(* (source_week_start, target_week_start) of copy_week_schedule *)
CopyInputs ==
    {<<format_date(0), format_date(7)>>, <<format_date(3), format_date(7)>>,
     <<(<<0, 1>>), format_date(7)>>, <<format_date(0), (<<7, 1>>)>>}

(* The source rows whose INSERT the storage may refuse *)
FailingInserts == {{}, {1}}

NextSched ==
    \/ \E c \in SchedLogins : steps < MaxSchedSteps /\ Login(c[1], c[2])
    \/ \E token \in Tokens : steps < MaxSchedSteps /\ Logout(token)
    \/ \E d \in 1..(SessionTicks + 1) : steps < MaxSchedSteps /\ Tick(d)
    \/ \E token \in Tokens, input \in CreateScheduleInputs :
          CreateSchedule(token, input)
    \/ \E token \in Tokens, id \in ScheduleIds, input \in UpdateScheduleInputs :
          UpdateSchedule(token, id, input)
    \/ \E token \in Tokens, id \in ScheduleIds, hours \in HourInputs :
          LogActualHours(token, id, hours)
    \/ \E token \in Tokens, id \in ScheduleIds : DeleteSchedule(token, id)
    \/ ReadBack
    \/ \E token \in Tokens, week_start \in WeekStarts :
          GetWeeklySchedule(token, week_start)
    \/ WeekMachine
    \/ WeekReturn
    \/ \E token \in Tokens, c \in CopyInputs, failing \in FailingInserts :
          CopyWeekSchedule(token, c[1], c[2], failing)
    \/ \E token \in Tokens, id \in MachineIds : DeleteMachine(token, id)

SpecSched == Init /\ [][NextSched]_vars

---------------------------------------------------------------------------
(* Properties *)

SessionOf(token) == CHOOSE i \in DOMAIN sessions : sessions[i].token = token

TokenStored(token) == \E i \in DOMAIN sessions : sessions[i].token = token

(* C1: a login with the username of an active account and its password    *)
(* succeeds for that account, and the token a successful login returns     *)
(* validates right away (no clock tick and no other command in between)    *)
(* and resolves to the user that logged in.                                *)
C1_LoginThenValidate ==
    /\ \A u \in DOMAIN users, p \in Passwords :
          (users[u].is_active /\ verify_password(p, users[u].password_hash)) =>
              /\ login_user(users[u].username, p).res = Ok
              /\ login_user(users[u].username, p).user_id = u
    /\ (last.op = "login" /\ last.res = Ok) =>
          /\ validate_session(last.token).res = Ok
          /\ validate_session(last.token).user_id = last.user
          /\ users[last.user].username = last.username
          /\ verify_password(last.new, users[last.user].password_hash)

C1_Witness ==
    /\ last.op = "login"
    /\ last.res = Ok
    /\ last.username = "operator1"
    /\ \E u \in DOMAIN users : ~users[u].is_active

(* C2: once logout was called with an issued token, validating that token  *)
(* answers "Invalid or expired session" in every later state.              *)
C2_LogoutIsFinal ==
    \A t \in loggedOut : validate_session(t).res = InvalidSession

C2_Witness ==
    /\ last.op = "get_current_user"
    /\ last.token \in loggedOut
    /\ last.res = InvalidSession
    /\ TokenStored(last.token)

C4_StrictExpiry ==
    (last.op = "get_current_user" /\ last.res = Ok) =>
        \E i \in DOMAIN sessions :
            /\ sessions[i].token = last.token
            /\ sessions[i].is_valid
            /\ StrLess(FormatTime(now), sessions[i].expires_at)

(* C5: a step changes an existing session row at most by clearing          *)
(* is_valid: token, user_id and expires_at stay, and is_valid never goes   *)
(* from false to true.                                                     *)
C5_SessionRowsOnlyInvalidated ==
    [][\A i \in DOMAIN sessions \cap DOMAIN sessions' :
          /\ sessions'[i].token = sessions[i].token
          /\ sessions'[i].user_id = sessions[i].user_id
          /\ sessions'[i].expires_at = sessions[i].expires_at
          /\ sessions'[i].is_valid => sessions[i].is_valid]_vars

C5_Witness ==
    /\ last.op = "get_current_user"
    /\ last.res = Ok
    /\ \E i \in DOMAIN sessions : ~sessions[i].is_valid
    /\ \E i \in DOMAIN sessions : sessions[i].token = last.token /\ sessions[i].is_valid

(* C6 as claimed: every session row that a login created is still in the   *)
(* sessions table.                                                         *)
C6_NoSessionRowRemoved ==
    \A i \in 1..(next_session_id - 1) : i \in DOMAIN sessions

(* C6 as amended: a step removes session rows only when it is a successful *)
(* delete_user, and that removes exactly the rows of the deleted user.     *)
C6_RowsRemovedOnlyByDeleteUser ==
    [][IF last'.op = "delete_user" /\ last'.res = Ok
       THEN DOMAIN sessions' = {i \in DOMAIN sessions : sessions[i].user_id # last'.target}
       ELSE DOMAIN sessions \subseteq DOMAIN sessions']_vars

C6_Witness ==
    /\ last.op = "delete_user"
    /\ last.res = Ok
    /\ \E i \in 1..(next_session_id - 1) : i \notin DOMAIN sessions

(* C7: right after a successful change_password, a login with the new      *)
(* password succeeds and a login with the old password, if it differs,     *)
(* answers "Invalid username or password".                                 *)
C7_ChangeThenLogin ==
    (last.op = "change_password" /\ last.res = Ok) =>
        /\ login_user(last.username, last.new).res = Ok
        /\ login_user(last.username, last.new).user_id = last.user
        /\ last.old # last.new =>
              login_user(last.username, last.old).res = InvalidCredentials

C7_Witness ==
    /\ last.op = "change_password"
    /\ last.res = Ok
    /\ last.old # last.new

C9_CallerSessionKept ==
    (last.op = "change_password" /\ last.res = Ok) =>
        /\ TokenStored(last.token)
        /\ sessions[SessionOf(last.token)].is_valid
        /\ validate_session(last.token).res = Ok

(* What the three gates answer for one role *)
TiersOf(role) ==
    /\ require_admin(role) = Ok <=> role \in {"Admin"}
    /\ require_edit_permission(role) = Ok <=> role \in {"Admin", "Operator"}
    /\ require_view_permission(role) = Ok <=> role \in {"Admin", "Operator", "Viewer"}
    /\ require_admin(role) = Ok => require_edit_permission(role) = Ok
    /\ require_edit_permission(role) = Ok => require_view_permission(role) = Ok
    /\ require_view_permission(role) # Ok =>
          (require_edit_permission(role) # Ok /\ require_admin(role) # Ok)

(* C10: over the roles of the stored users and over the closed role set,   *)
(* the admin tier admits exactly Admin, the edit tier exactly Admin and    *)
(* Operator, the view tier all three; so admin implies edit implies view.  *)
C10_TiersNested ==
    /\ \A u \in DOMAIN users : users[u].role \in Roles /\ TiersOf(users[u].role)
    /\ \A role \in RoleInputs : TiersOf(role)

C10_Witness ==
    /\ {users[u].role : u \in DOMAIN users} = Roles
    /\ last.op = "update_user"
    /\ last.res = PermissionDenied

---------------------------------------------------------------------------
(* Properties of the schedule commands, checked under SpecSched *)

EditOps ==
    {"create_schedule", "update_schedule", "log_actual_hours", "delete_schedule",
     "copy_week_schedule"}

(* A step that starts a command: the commands count their invocations *)
Invoked(ops) == steps' = steps + 1 /\ last'.op \in ops

(* C11: when a Viewer who holds a valid session calls an Edit-tier         *)
(* schedule command (create_schedule, update_schedule, log_actual_hours,   *)
(* delete_schedule, copy_week_schedule), the command answers PermissionDenied *)
(* and the schedules, sessions and users tables are left as they were.     *)
C11_ViewerEditDenied ==
    [][(/\ Invoked(EditOps)
        /\ validate_session(last'.token).res = Ok
        /\ users[validate_session(last'.token).user_id].role = "Viewer")
       => (/\ last'.res = PermissionDenied
           /\ UNCHANGED <<schedules, sessions, users>>)]_vars

C11_Witness ==
    /\ last.op = "create_schedule"
    /\ last.res = PermissionDenied
    /\ last.user \in DOMAIN users
    /\ users[last.user].role = "Viewer"
    /\ \E i \in DOMAIN sessions : sessions[i].token = last.token /\ sessions[i].is_valid

AuthErrors == {InvalidSession, SessionExpired, UserNotFound, PermissionDenied}

ReadBackOps == {"create_schedule", "update_schedule", "log_actual_hours"}

ScheduleOps == EditOps \cup {"get_weekly_schedule", "delete_machine"}

(* C12: a command that answers InvalidSession, SessionExpired,             *)
(* UserNotFound or PermissionDenied has performed no insert, update or     *)
(* delete on the application data; this is claimed for create_schedule,    *)
(* update_schedule and log_actual_hours too, also while other callers log  *)
(* out, change passwords or let sessions expire.                           *)
C12_NoWriteBeforeAuthError ==
    (last.op \in ScheduleOps /\ last.res \in AuthErrors) => ~reply.wrote

(* C13: the write and the read-back of create_schedule, update_schedule    *)
(* and log_actual_hours are atomic against the other callers: no other     *)
(* command reaches the database in between, so a request whose write       *)
(* succeeded (and whose session still stands) reads back the row it wrote. *)
C13_ReadBackSeesOwnWrite ==
    (/\ last.op \in ReadBackOps
     /\ last.res \notin AuthErrors \cup {Running}
     /\ reply.wrote)
    => (/\ last.res = Ok
        /\ reply.value.read = reply.value.written)

(* The machines of a weekly view computed in one go from the tables as     *)
(* they are now                                                            *)
WeekRows(start_date) ==
    [k \in 1..Len(MachinesByName) |->
        MachineWeekSchedule(MachinesByName[k], start_date)]

(* C14: get_weekly_schedule holds the database lock from its session       *)
(* validation until its result is complete: while it runs no command       *)
(* changes a table, and its machine list and all its (machine, day)        *)
(* queries answer from one and the same state of the database.             *)
C14_WeekUnderOneLock ==
    [][/\ week # None => (/\ db_lock # Free
                          /\ UNCHANGED <<machines, schedules, users, sessions>>)
       /\ (week # None /\ week' = None) =>
              (/\ last'.res = Ok
               /\ reply'.value.machines = WeekRows(Unwrap(week).start_date))]_vars

C14_Witness ==
    /\ week # None
    /\ Unwrap(week).result # <<>>
    /\ Unwrap(week).machines # <<>>
    /\ pending # None

(* The state right after get_weekly_schedule returned Ok: reply.value is   *)
(* its WeeklyScheduleResponse                                              *)
WeekReturned == last.op = "get_weekly_schedule" /\ last.res = Ok

(* The stored entries of one machine on one date *)
StoredOn(machine_id, date_str) ==
    {s \in DOMAIN schedules :
        schedules[s].machine_id = machine_id /\ schedules[s].date = date_str}

(* C15: the weekly view has exactly one row for every stored machine,      *)
(* each row has exactly 7 day buckets, for the dates week_start,           *)
(* week_start+1, ..., week_start+6 in this order, and a (machine, day)     *)
(* without entries has an empty list and zero totals.                      *)
C15_OneRowPerMachineSevenDays ==
    WeekReturned =>
        LET rows == reply.value.machines
            start_date == Unwrap(parse_from_str(reply.value.week_start))
        IN  /\ Len(rows) = Cardinality(DOMAIN machines)
            /\ {rows[k].machine_id : k \in 1..Len(rows)} = DOMAIN machines
            /\ \A k \in 1..Len(rows) :
                  /\ Len(rows[k].days) = 7
                  /\ \A d \in 1..7 :
                        LET day == rows[k].days[d]
                        IN  /\ day.date = format_date(start_date + d - 1)
                            /\ StoredOn(rows[k].machine_id, day.date) = {} =>
                                  (/\ day.entries = <<>>
                                   /\ day.total_planned = 0
                                   /\ day.total_actual = 0)

C15_Witness ==
    /\ WeekReturned
    /\ Len(reply.value.machines) = 2
    /\ \E k \in 1..2 : \A d \in 1..7 : reply.value.machines[k].days[d].entries = <<>>
    /\ \E k \in 1..2 : \E d \in 1..7 : reply.value.machines[k].days[d].entries # <<>>

RECURSIVE PlannedOf(_)
(* The planned hours of a set of stored entries, added up *)
PlannedOf(S) ==
    IF S = {} THEN 0
    ELSE LET s == CHOOSE x \in S : TRUE
         IN  schedules[s].planned_hours + PlannedOf(S \ {s})

RECURSIVE ActualOf(_)
(* The actual hours of a set of stored entries, added up; an entry without *)
(* actual hours adds nothing                                               *)
ActualOf(S) ==
    IF S = {} THEN 0
    ELSE LET s == CHOOSE x \in S : TRUE
         IN  (IF schedules[s].actual_hours = None THEN 0
              ELSE Unwrap(schedules[s].actual_hours)) + ActualOf(S \ {s})

(* The stored entries of one machine whose date is one of the 7 dates of   *)
(* the week that starts on start_date                                      *)
StoredInWeek(machine_id, start_date) ==
    {s \in DOMAIN schedules :
        /\ schedules[s].machine_id = machine_id
        /\ \E d \in 0..6 : schedules[s].date = format_date(start_date + d)}

(* C16: every day bucket of the weekly view holds exactly the stored       *)
(* entries of its machine and date, each once; its total_planned is the    *)
(* sum of their planned hours and its total_actual the sum of their        *)
(* actual hours with a missing value as 0; the weekly totals of a machine  *)
(* are the sums of its 7 day totals, so each entry of the week counts      *)
(* once and no entry outside the week counts.                              *)
C16_BucketsAndTotals ==
    WeekReturned =>
        LET rows == reply.value.machines
            start_date == Unwrap(parse_from_str(reply.value.week_start))
        IN  \A k \in 1..Len(rows) :
               /\ \A d \in 1..Len(rows[k].days) :
                     LET day == rows[k].days[d]
                         stored == StoredOn(rows[k].machine_id, day.date)
                     IN  /\ {day.entries[j].id : j \in 1..Len(day.entries)} = stored
                         /\ Len(day.entries) = Cardinality(stored)
                         /\ \A j \in 1..Len(day.entries) :
                               /\ day.entries[j].planned_hours =
                                      schedules[day.entries[j].id].planned_hours
                               /\ day.entries[j].actual_hours =
                                      schedules[day.entries[j].id].actual_hours
                         /\ day.total_planned = PlannedOf(stored)
                         /\ day.total_actual = ActualOf(stored)
               /\ rows[k].weekly_planned =
                      PlannedOf(StoredInWeek(rows[k].machine_id, start_date))
               /\ rows[k].weekly_actual =
                      ActualOf(StoredInWeek(rows[k].machine_id, start_date))
               /\ rows[k].weekly_planned =
                      rows[k].days[1].total_planned + rows[k].days[2].total_planned
                      + rows[k].days[3].total_planned + rows[k].days[4].total_planned
                      + rows[k].days[5].total_planned + rows[k].days[6].total_planned
                      + rows[k].days[7].total_planned
               /\ rows[k].weekly_actual =
                      rows[k].days[1].total_actual + rows[k].days[2].total_actual
                      + rows[k].days[3].total_actual + rows[k].days[4].total_actual
                      + rows[k].days[5].total_actual + rows[k].days[6].total_actual
                      + rows[k].days[7].total_actual

(* A machine with two entries on one day and an entry without actual      *)
(* hours in the week                                                       *)
C16_Witness ==
    /\ WeekReturned
    /\ LET rows == reply.value.machines
           start_date == Unwrap(parse_from_str(reply.value.week_start))
       IN  \E k \in 1..Len(rows) :
              /\ \E d \in 1..7 : Len(rows[k].days[d].entries) = 2
              /\ \E s \in StoredInWeek(rows[k].machine_id, start_date) :
                    schedules[s].actual_hours = None
              /\ rows[k].weekly_actual < rows[k].weekly_planned

(* C17: whenever get_weekly_schedule accepts its week_start, the 7 day     *)
(* buckets of each machine run from Monday to Sunday in this order: the    *)
(* date of the first bucket is a Monday, and week_end is the Sunday that   *)
(* follows it.                                                             *)
C17_MondayToSunday ==
    WeekReturned =>
        /\ day_name(Unwrap(parse_from_str(reply.value.week_end))) = "Sunday"
        /\ \A k \in 1..Len(reply.value.machines) :
              \A d \in 1..7 : reply.value.machines[k].days[d].day_name = DayNames[d]

(* A step in which copy_week_schedule returned Ok *)
CopyReturned ==
    /\ steps' = steps + 1
    /\ last'.op = "copy_week_schedule"
    /\ last'.res = Ok

(* The stored entries whose date is one of the 7 dates of the week that    *)
(* starts on start_date                                                    *)
SourceWeek(start_date) ==
    {s \in DOMAIN schedules :
        \E d \in 0..6 : schedules[s].date = format_date(start_date + d)}

(* Row `new` is the copy of row `old` moved by day_diff days for user_id *)
IsCopyOf(new, old, day_diff, user_id) ==
    /\ new.machine_id = old.machine_id
    /\ new.project_id = old.project_id
    /\ new.operator_id = old.operator_id
    /\ new.load_name = old.load_name
    /\ new.planned_hours = old.planned_hours
    /\ new.notes = old.notes
    /\ new.date = format_date(Unwrap(parse_from_str(old.date)) + day_diff)
    /\ new.status = "scheduled"
    /\ new.actual_hours = None
    /\ new.created_by = Some(user_id)

(* C18: copy_week_schedule(source_start, target_start) creates, for each   *)
(* entry dated source_start..source_start+6, one new entry with the same   *)
(* machine, project, operator, load name, planned hours and notes, dated   *)
(* target_start - source_start days later, with status 'scheduled', no     *)
(* actual hours and created_by the acting user, and leaves the source      *)
(* entries as they were.                                                   *)
C18_CopyCreatesShiftedEntries ==
    [][CopyReturned =>
          LET source_start == Unwrap(parse_from_str(reply'.value.source))
              target_start == Unwrap(parse_from_str(reply'.value.target))
              created == DOMAIN schedules' \ DOMAIN schedules
          IN  /\ \A s \in DOMAIN schedules :
                    s \in DOMAIN schedules' /\ schedules'[s] = schedules[s]
              /\ \E f \in [SourceWeek(source_start) -> created] :
                    /\ \A s, t \in SourceWeek(source_start) : f[s] = f[t] => s = t
                    /\ \A n \in created : \E s \in SourceWeek(source_start) : f[s] = n
                    /\ \A s \in SourceWeek(source_start) :
                          IsCopyOf(schedules'[f[s]], schedules[s],
                                   target_start - source_start, last'.user)]_vars

(* C19: the count a successful copy_week_schedule returns is the number    *)
(* of entries it copied: after a call that returns n the schedules table   *)
(* holds exactly n more entries than before.                               *)
C19_CountIsRowsAdded ==
    [][CopyReturned =>
          Cardinality(DOMAIN schedules') =
              Cardinality(DOMAIN schedules) + reply'.value.copied]_vars

(* A date string that is not a "%Y-%m-%d" date *)
Malformed(s) == s[2] # 0

(* C20: get_weekly_schedule and copy_week_schedule called with a           *)
(* malformed date string (week_start, source or target) return the parse   *)
(* error before any schedule entry is read or written: the schedules       *)
(* table is as before and no copy exists.                                  *)
C20_MalformedDateFailsFast ==
    [][/\ \A token \in Tokens, week_start \in WeekStarts :
             (Malformed(week_start) /\ GetWeeklySchedule(token, week_start)) =>
                 /\ last'.res # Ok
                 /\ ViewGate(token).res = Ok => last'.res = ParseError
                 /\ week' = None
                 /\ UNCHANGED <<schedules, next_schedule_id>>
       /\ \A token \in Tokens, c \in CopyInputs, failing \in FailingInserts :
             ((Malformed(c[1]) \/ Malformed(c[2]))
              /\ CopyWeekSchedule(token, c[1], c[2], failing)) =>
                 /\ last'.res # Ok
                 /\ EditGate(token).res = Ok => last'.res = ParseError
                 /\ UNCHANGED <<schedules, next_schedule_id>>]_vars

C20_Witness ==
    /\ last.op = "copy_week_schedule"
    /\ last.res = ParseError
    /\ ~Malformed(reply.value.source)
    /\ Malformed(reply.value.target)
    /\ SourceWeek(Unwrap(parse_from_str(reply.value.source))) # {}
    /\ \A s \in DOMAIN schedules : ~Malformed(schedules[s].date)

---------------------------------------------------------------------------
(* Further properties of the auth and user commands, checked under Spec *)

(* C21: logout(token) always returns success, also for a token that does   *)
(* not exist or is already invalidated; it clears is_valid of the session  *)
(* with exactly that token and changes no other session; a second call     *)
(* with the same token leaves the state of the first.                      *)
C21_LogoutIdempotentTotal ==
    [][\A token \in AnyTokens :
          (last'.op = "logout" /\ last'.token = token /\ Logout(token)) =>
              /\ last'.res = Ok
              /\ DOMAIN sessions' = DOMAIN sessions
              /\ \A i \in DOMAIN sessions :
                    sessions'[i] = IF sessions[i].token = token
                                   THEN [sessions[i] EXCEPT !.is_valid = FALSE]
                                   ELSE sessions[i]
              /\ (last.op = "logout" /\ last.token = token) => sessions' = sessions
              /\ UNCHANGED users]_vars

C21_Witness ==
    /\ last.op = "logout"
    /\ last.res = Ok
    /\ TokenStored(last.token)
    /\ ~sessions[SessionOf(last.token)].is_valid
    /\ \E j \in DOMAIN sessions :
          /\ sessions[j].user_id = sessions[SessionOf(last.token)].user_id
          /\ sessions[j].token # last.token
          /\ sessions[j].is_valid

---------------------------------------------------------------------------
(* Further properties of copy_week_schedule, checked under SpecSched *)

(* The rows the SELECT of copy_week_schedule reads for a source week *)
SelectedRows(source_week_start) ==
    LET source_start == Unwrap(parse_from_str(source_week_start))
    IN  {t \in DOMAIN schedules :
            /\ TextLeq(format_date(source_start), schedules[t].date)
            /\ TextLeq(schedules[t].date, format_date(source_start + WeekSpan))}

(* C22: in copy_week_schedule a storage error on one INSERT is swallowed:  *)
(* the call past its gate with well-formed dates still returns success,    *)
(* goes on to insert the remaining source entries, and the count it        *)
(* returns is the number of source entries read, the failed ones included. *)
C22_InsertErrorSwallowed ==
    [][\A token \in AnyTokens, c \in CopyInputs, failing \in FailingInserts :
          LET sel == SelectedRows(c[1])
              day_diff == Unwrap(parse_from_str(c[2]))
                              - Unwrap(parse_from_str(c[1]))
              created == DOMAIN schedules' \ DOMAIN schedules
          IN  ( /\ CopyWeekSchedule(token, c[1], c[2], failing)
                /\ EditGate(token).res = Ok
                /\ ~Malformed(c[1]) /\ ~Malformed(c[2])
                /\ \A t \in sel : ~Malformed(schedules[t].date) )
              => /\ last'.res = Ok
                 /\ reply'.value.copied = Cardinality(sel)
                 /\ Cardinality(created) = Cardinality(sel \ failing)
                 /\ \A s \in sel \ failing :
                       \E n \in created :
                           IsCopyOf(schedules'[n], schedules[s], day_diff,
                                    last'.user)]_vars

C22_Witness ==
    /\ last.op = "copy_week_schedule"
    /\ last.res = Ok
    /\ reply.value.failing = {1}
    /\ reply.value.source = format_date(0)
    /\ reply.value.copied = Len(SeedSchedules)
    /\ Cardinality(DOMAIN schedules) = 2 * Len(SeedSchedules) - 1

(* C23: every stored user has one role and it is Admin, Operator or        *)
(* Viewer, whatever create_user, update_user, delete_user and the password *)
(* commands did before; create_user or update_user with any other role     *)
(* string returns an error and leaves the users table as it was: a step of *)
(* one of the two that succeeds or changes the table is not a call with    *)
(* such a role.                                                            *)
C23_RoleClosed ==
    [][/\ \A u \in DOMAIN users' : users'[u].role \in Roles
       /\ (last'.op = "create_user" /\ (last'.res = Ok \/ users' # users)) =>
             \A input \in CreateUserInputs :
                 input.role \notin Roles => ~CreateUser(last'.token, input)
       /\ (last'.op = "update_user" /\ (last'.res = Ok \/ users' # users)) =>
             \A id \in UserIds, input \in UpdateUserInputs :
                 (input.role # None /\ Unwrap(input.role) \notin Roles)
                     => ~UpdateUser(last'.token, id, input)]_vars

C23_Witness ==
    /\ last.op \in {"create_user", "update_user"}
    /\ last.res \in {"Invalid role. Must be Admin, Operator, or Viewer", InvalidRole}
    /\ \A u \in DOMAIN users : users[u].role \in Roles

(* C24: delete_user called by an Admin with the id of their own account    *)
(* returns an error and leaves the users table and the sessions table as   *)
(* they were; so the account that issues a delete_user still exists after  *)
(* the call.                                                               *)
C24_NoSelfDelete ==
    [][\A token \in Tokens, id \in UserIds :
          (last'.op = "delete_user" /\ last'.token = token /\ DeleteUser(token, id)) =>
              LET g == AdminGate(token)
              IN  /\ (g.res = Ok /\ id = g.user_id)
                        => /\ last'.res = SelfDelete
                           /\ users' = users
                           /\ sessions' = sessions
                  /\ g.user_id \in DOMAIN users => g.user_id \in DOMAIN users']_vars

C24_Witness ==
    /\ last.op = "delete_user"
    /\ last.res = SelfDelete
    /\ last.target = last.user
    /\ last.user \in DOMAIN users
    /\ users[last.user].role = "Admin"
    /\ TokenStored(last.token)
    /\ sessions[SessionOf(last.token)].is_valid

(* C25: login with an unknown username, with a wrong password for an       *)
(* existing username, or for a deactivated account returns the same        *)
(* "Invalid username or password" error in all three cases, and a failed   *)
(* login stores no session row.                                            *)
C25_LoginFailuresAlike ==
    [][\A username \in Usernames, password \in Passwords :
          ( /\ last'.op = "login"
            /\ last'.username = username
            /\ last'.new = password
            /\ Login(username, password)
            /\ \/ \A u \in DOMAIN users : users[u].username # username
               \/ \E u \in DOMAIN users :
                     /\ users[u].username = username
                     /\ \/ ~verify_password(password, users[u].password_hash)
                        \/ ~users[u].is_active )
              => /\ last'.res = InvalidCredentials
                 /\ sessions' = sessions
                 /\ next_session_id' = next_session_id]_vars

C25_Witness ==
    /\ last.op = "login"
    /\ last.res = InvalidCredentials
    /\ \E u \in DOMAIN users :
          /\ users[u].username = last.username
          /\ ~users[u].is_active
          /\ verify_password(last.new, users[u].password_hash)

---------------------------------------------------------------------------
(* Termination of the requests.  parking_lot's Mutex hands the lock to a   *)
(* waiting thread eventually, so a read-back that keeps finding the lock   *)
(* free from time to time does acquire it (strong fairness); a handler     *)
(* that holds the guard keeps running (weak fairness).                     *)

(* The requests that take the lock twice or hold it over several steps:    *)
(* create_schedule and log_actual_hours with their read-back               *)
(* (update_schedule ends in the same drop(conn); get_schedule(..) as       *)
(* they do), and get_weekly_schedule with its loop, after the login of an  *)
(* Operator.                                                               *)
LockLogins == {<<"operator1", "operator123">>}

LockWeekStarts == {format_date(0)}

NextLock ==
    \/ \E c \in LockLogins : steps < MaxSchedSteps /\ Login(c[1], c[2])
    \/ \E token \in Tokens, input \in CreateScheduleInputs :
          CreateSchedule(token, input)
    \/ \E token \in Tokens, id \in ScheduleIds, hours \in HourInputs :
          LogActualHours(token, id, hours)
    \/ ReadBack
    \/ \E token \in Tokens, week_start \in LockWeekStarts :
          GetWeeklySchedule(token, week_start)
    \/ WeekMachine
    \/ WeekReturn

SpecSchedFair ==
    /\ Init
    /\ [][NextLock]_vars
    /\ SF_vars(ReadBack)
    /\ WF_vars(WeekMachine)
    /\ WF_vars(WeekReturn)

(* C27: every request that has taken the database lock runs to its return  *)
(* and releases the lock, and no handler waits for the lock while holding  *)
(* it: the lock is never held by a command that is between its write and   *)
(* its read-back, such a command gets its read-back, and a held lock is    *)
(* released again, so under fair scheduling every pending request          *)
(* completes.                                                              *)
C27_RequestsComplete ==
    /\ [](db_lock \notin ReadBackOps)
    /\ (pending # None) ~> (pending = None /\ last.res # Running)
    /\ (db_lock # Free) ~> (db_lock = Free /\ week = None)

C27_Witness ==
    /\ pending = None
    /\ week = None
    /\ LockFree
    /\ last.op \in ReadBackOps
    /\ last.res = Ok
    /\ reply.wrote

---------------------------------------------------------------------------
(* Deactivation and reactivation of a logged-in user.  The runs start      *)
(* after the seeded Admin and the seeded Operator have logged in at time   *)
(* 0, which takes two logins from Init.                                    *)

LoggedInUsers == <<1, 2>>

InitReact ==
    /\ users = [i \in 1..Len(SeedUsers) |->
                   NewUserRow(SeedUsers[i].username, SeedUsers[i].password,
                              SeedUsers[i].role)]
    /\ sessions = [i \in 1..Len(LoggedInUsers) |->
                      [user_id |-> LoggedInUsers[i], token |-> i,
                       expires_at |-> FormatTime(SessionTicks), is_valid |-> TRUE]]
    /\ now = 0
    /\ next_user_id = Len(SeedUsers) + 1
    /\ next_session_id = Len(LoggedInUsers) + 1
    /\ last = NoLast
    /\ loggedOut = {}
    /\ pwChanged = {}
    /\ expiredSeen = {}
    /\ notFoundSeen = {}
    /\ steps = 0
    /\ machines = [i \in 1..Len(SeedMachines) |-> SeedMachines[i]]
    /\ schedules = [i \in 1..Len(SeedSchedules) |-> SeedSchedules[i]]
    /\ next_schedule_id = Len(SeedSchedules) + 1
    /\ db_lock = Free
    /\ pending = None
    /\ week = None
    /\ reply = NoReply

NextReact ==
    \/ \E token \in AnyTokens : GetCurrentUser(token)
    \/ \E token \in Tokens, id \in UserIds, input \in UpdateUserInputs :
          UpdateUser(token, id, input)
    \/ \E token \in AnyTokens : Logout(token)
    \/ \E d \in 1..(SessionTicks + 1) : Tick(d)

SpecReact == InitReact /\ [][NextReact]_vars

(* The session of `token` is stored valid and has not expired *)
LiveSession(token) ==
    \E i \in ValidSessionIds(token) : ~StrLess(sessions[i].expires_at, FormatTime(now))

(* C28: while the user of a live session is deactivated validate_session   *)
(* fails with UserNotFound and does not invalidate the session; the        *)
(* failure is not terminal: once an Admin has reactivated the user, the    *)
(* token, if its session is still valid and not expired, validates         *)
(* successfully again.                                                     *)
C28_DeactivationNotTerminal ==
    [][\A token \in Tokens :
          (GetCurrentUser(token) /\ LiveSession(token))
              => LET owner == sessions[SessionOf(token)].user_id
                 IN  IF users[owner].is_active
                     THEN last'.res = Ok /\ last'.user = owner
                     ELSE /\ last'.res = UserNotFound
                          /\ sessions' = sessions]_vars

C28_Witness ==
    /\ last.op = "get_current_user"
    /\ last.res = Ok
    /\ last.token \in notFoundSeen
    /\ LiveSession(last.token)

(* C29: copy_week_schedule is all-or-nothing with respect to the errors it *)
(* returns: whenever it returns an error, a date parse error raised on a   *)
(* stored source entry with a malformed date included, the schedules table *)
(* is the same as before the call.                                         *)
C29_CopyAllOrNothing ==
    [][\A token \in Tokens, c \in CopyInputs, failing \in FailingInserts :
          (CopyWeekSchedule(token, c[1], c[2], failing) /\ last'.res # Ok)
              => schedules' = schedules]_vars

(* The commands of commands/users.rs that write the users table *)
UserAdminOps == {"create_user", "update_user", "delete_user", "reset_user_password"}

(* C30: nothing done with an Operator or Viewer session changes a user's   *)
(* role or active flag, creates or deletes a user, or changes another      *)
(* user's password: the users table changes only in create_user,           *)
(* update_user, delete_user and reset_user_password called with a valid    *)
(* session of an active Admin, and in change_password, which changes only  *)
(* the password of the user who owns the presented token.                  *)
C30_UsersChangedOnlyByAdmin ==
    [][users' # users =>
          /\ TokenStored(last'.token)
          /\ LET owner == sessions[SessionOf(last'.token)].user_id
             IN  /\ LiveSession(last'.token)
                 /\ users[owner].is_active
                 /\ last'.res = Ok
                 /\ \/ last'.op \in UserAdminOps /\ users[owner].role = "Admin"
                    \/ /\ last'.op = "change_password"
                       /\ DOMAIN users' = DOMAIN users
                       /\ \A u \in DOMAIN users :
                             \/ users'[u] = users[u]
                             \/ /\ u = owner
                                /\ users'[u] = [users[u] EXCEPT !.password_hash =
                                                   users'[u].password_hash]]_vars

C30_Witness ==
    /\ last.op \in UserAdminOps
    /\ last.res = PermissionDenied
    /\ TokenStored(last.token)
    /\ LiveSession(last.token)
    /\ users[sessions[SessionOf(last.token)].user_id].role \in {"Operator", "Viewer"}
    /\ users[sessions[SessionOf(last.token)].user_id].is_active

===========================================================================
